---------------------------- MODULE Spec2Model ----------------------------
(***************************************************************************)
(* A model of the LZW codec of src/common/tvgCompressor.cpp: the bit       *)
(* stream writer and reader, the dictionary, lzwEncode and lzwDecode.      *)
(*                                                                         *)
(* A C array of n elements is a sequence of length n: element i of the     *)
(* array is element i + 1 of the sequence.  One encoder action is one      *)
(* iteration of the loop of lzwEncode, one decoder action is one iteration *)
(* of the loop of lzwDecode.                                               *)
(***************************************************************************)
EXTENDS Integers, Sequences, FiniteSets, TLC

(***************************************************************************)
(* Program constants (tvgCompressor.cpp:73-77).                            *)
(***************************************************************************)
Nil == -1
MaxDictBits == 12
StartBits == 9
FirstCode == 2 ^ (StartBits - 1)
MaxDictEntries == 2 ^ MaxDictBits

\* BitStreamWriter() : allocate(8192), granularity 2 (tvgCompressor.cpp:104,127)
DefaultSizeInBits == 8192
DefaultGranularity == 2

(***************************************************************************)
(* Bounds of the model.                                                    *)
(***************************************************************************)
\* short inputs: every byte sequence over Alphabet of length 0..MaxLen
MaxLen == 4
\* length of the long input, which fills the dictionary and crosses an epoch
LongLen == 3877
\* length of the prefix of the long input whose last code fills the dictionary
FullLen == 3872
\* the number of iterations of lzwEncode / lzwDecode on the long inputs that
\* precede the states they are followed from
WarmBytes == 3870
WarmCodes == 3839
\* lengths of the runs of one byte the long input starts and ends with
HeadRun == 12
TailRun == 4
\* a reader used on its own: bytes of its buffer, widest read
MaxReaderBytes == 2
MaxReadWidth == 12
\* lzwDecode on a buffer lzwEncode did not produce: number of codes packed
\* in it, size of the output buffer
MaxForeignCodes == 4
ForeignOutBytes == 8
\* BitStreamWriter on its own: the calls followed after the construction, and
\* the bits a default-constructed writer has left before it grows
MaxAppends == 3
WriterSlack == 16

(***************************************************************************)
(* Integer helpers: the C bit operations, on two's-complement integers.    *)
(***************************************************************************)
\* bit b of num (num may be negative: uint64_t(-1) has every bit set)
BitOf(num, b) == (num % (2 ^ (b + 1))) \div (2 ^ b)

\* (byte & ~mask) | (-bit & mask) with mask == 1 << pos
SetBit(byte, pos, bit) == byte - (BitOf(byte, pos) * (2 ^ pos)) + (bit * (2 ^ pos))

Min(S) == CHOOSE x \in S : \A y \in S : x <= y

\* bitwise or of two non-negative ints, bit by bit
RECURSIVE BitOr(_, _)
BitOr(a, b) ==
    IF a = 0 THEN b
    ELSE IF b = 0 THEN a
    ELSE (IF (a % 2 = 1) \/ (b % 2 = 1) THEN 1 ELSE 0) + 2 * BitOr(a \div 2, b \div 2)

\* the loop of nextPowerOfTwo: num = num | num >> i for i = 1, 2, 4, 8, 16
RECURSIVE SmearBits(_, _)
SmearBits(num, i) ==
    IF i >= 32 THEN num
    ELSE SmearBits(BitOr(num, num \div (2 ^ i)), 2 * i)

nextPowerOfTwo(num) == SmearBits(num - 1, 1) + 1

(***************************************************************************)
(* BitStreamWriter (tvgCompressor.cpp:91-198).                             *)
(***************************************************************************)
\* internalInit: stream == nullptr is the empty array
internalInit ==
    [stream |-> <<>>, bytesAllocated |-> 0, granularity |-> DefaultGranularity,
     currBytePos |-> 0, nextBitPos |-> 0, numBitsWritten |-> 0]

\* allocBytes without the copy of the old bytes
allocBytesNoCopy(bytesWanted, oldPtr, oldSize) ==
    [i \in 1..bytesWanted |-> 0]

\* allocBytes: zeroed new memory, the old bytes copied over its start
allocBytes(bytesWanted, oldPtr, oldSize) ==
    [i \in 1..bytesWanted |-> IF i <= oldSize THEN oldPtr[i] ELSE 0]

allocate(w, bitsWanted) ==
    LET atLeast == IF bitsWanted <= 0 THEN 8 ELSE bitsWanted
        rounded == IF atLeast % 8 # 0 THEN nextPowerOfTwo(atLeast) ELSE atLeast
        sizeInBytes == rounded \div 8
    IN  IF sizeInBytes <= w.bytesAllocated THEN w
        ELSE [w EXCEPT !.stream = allocBytes(sizeInBytes, w.stream, w.bytesAllocated),
                       !.bytesAllocated = sizeInBytes]

setGranularity(w, growthGranularity) ==
    [w EXCEPT !.granularity = IF growthGranularity >= 2 THEN growthGranularity ELSE 2]

\* BitStreamWriter()
NewWriter == allocate(internalInit, DefaultSizeInBits)

\* BitStreamWriter(initialSizeInBits, growthGranularity)
NewWriterSized(initialSizeInBits, growthGranularity) ==
    allocate(setGranularity(internalInit, growthGranularity), initialSizeInBits)

\* appendBit filling a byte from its most significant bit down
appendBitMsbFirst(w, bit) ==
    LET w1 == [w EXCEPT !.stream[w.currBytePos + 1] = SetBit(@, 7 - w.nextBitPos, bit),
                        !.numBitsWritten = @ + 1]
    IN  IF w.nextBitPos + 1 = 8
        THEN LET w2 == [w1 EXCEPT !.nextBitPos = 0, !.currBytePos = @ + 1]
             IN  IF w2.currBytePos = w2.bytesAllocated
                 THEN allocate(w2, w2.bytesAllocated * w2.granularity * 8)
                 ELSE w2
        ELSE [w1 EXCEPT !.nextBitPos = @ + 1]

\* the write of appendBit is outside the storage: stream[currBytePos] with
\* no byte allocated there
appendUndefined(w, bitCount) ==
    bitCount > 0 /\ w.currBytePos >= w.bytesAllocated

appendBit(w, bit) ==
    LET w1 == [w EXCEPT !.stream[w.currBytePos + 1] = SetBit(@, w.nextBitPos, bit),
                        !.numBitsWritten = @ + 1]
    IN  IF w.nextBitPos + 1 = 8
        THEN LET w2 == [w1 EXCEPT !.nextBitPos = 0, !.currBytePos = @ + 1]
             IN  IF w2.currBytePos = w2.bytesAllocated
                 THEN allocate(w2, w2.bytesAllocated * w2.granularity * 8)
                 ELSE w2
        ELSE [w1 EXCEPT !.nextBitPos = @ + 1]

\* the loop of appendBitsU64, from bit b on
RECURSIVE appendBitsFrom(_, _, _, _)
appendBitsFrom(w, num, b, bitCount) ==
    IF b >= bitCount THEN w
    ELSE appendBitsFrom(appendBit(w, BitOf(num, b)), num, b + 1, bitCount)

appendBitsU64(w, num, bitCount) == appendBitsFrom(w, num, 0, bitCount)

\* getByteCount without the byte for the leftover bits
getByteCountFloor(w) == w.numBitsWritten \div 8

getByteCount(w) ==
    LET usedBytes == w.numBitsWritten \div 8
        leftovers == w.numBitsWritten % 8
    IN  IF leftovers # 0 THEN usedBytes + 1 ELSE usedBytes

(***************************************************************************)
(* BitStreamReader (tvgCompressor.cpp:201-247).  The member stream is a    *)
(* pointer to a buffer the reader does not own: the operations take the    *)
(* buffer it points to as their first argument.                            *)
(***************************************************************************)
NewReader(byteCount, bitCount) ==
    [sizeInBytes |-> byteCount, sizeInBits |-> bitCount,
     currBytePos |-> 0, nextBitPos |-> 0, numBitsRead |-> 0]

\* readNextBit taking the bits of a byte from the most significant one down
readNextBitMsbFirst(stream, r) ==
    IF r.numBitsRead >= r.sizeInBits
    THEN [ok |-> FALSE, bit |-> 0, r |-> r]
    ELSE LET bit == BitOf(stream[r.currBytePos + 1], 7 - r.nextBitPos)
             r1 == [r EXCEPT !.numBitsRead = @ + 1]
         IN  [ok |-> TRUE, bit |-> bit,
              r |-> IF r.nextBitPos + 1 = 8
                    THEN [r1 EXCEPT !.nextBitPos = 0, !.currBytePos = @ + 1]
                    ELSE [r1 EXCEPT !.nextBitPos = @ + 1]]

\* readNextBit counting the call that found the end of the stream as a read
readNextBitPastEnd(stream, r) ==
    IF r.numBitsRead >= r.sizeInBits
    THEN [ok |-> FALSE, bit |-> 0, r |-> [r EXCEPT !.numBitsRead = @ + 1]]
    ELSE LET bit == BitOf(stream[r.currBytePos + 1], r.nextBitPos)
             r1 == [r EXCEPT !.numBitsRead = @ + 1]
         IN  [ok |-> TRUE, bit |-> bit,
              r |-> IF r.nextBitPos + 1 = 8
                    THEN [r1 EXCEPT !.nextBitPos = 0, !.currBytePos = @ + 1]
                    ELSE [r1 EXCEPT !.nextBitPos = @ + 1]]

\* the result is [ok, bit, r]: the returned bool, bitOut, the reader afterwards
readNextBit(stream, r) ==
    IF r.numBitsRead >= r.sizeInBits
    THEN [ok |-> FALSE, bit |-> 0, r |-> r]
    ELSE LET bit == BitOf(stream[r.currBytePos + 1], r.nextBitPos)
             r1 == [r EXCEPT !.numBitsRead = @ + 1]
         IN  [ok |-> TRUE, bit |-> bit,
              r |-> IF r.nextBitPos + 1 = 8
                    THEN [r1 EXCEPT !.nextBitPos = 0, !.currBytePos = @ + 1]
                    ELSE [r1 EXCEPT !.nextBitPos = @ + 1]]

\* the loop of readBitsU64, from bit b on; the result is [num, r]
RECURSIVE readBitsFrom(_, _, _, _, _)
readBitsFrom(stream, r, num, b, bitCount) ==
    IF b >= bitCount THEN [num |-> num, r |-> r]
    ELSE LET got == readNextBit(stream, r)
         IN  IF ~got.ok THEN [num |-> num, r |-> r]
             ELSE readBitsFrom(stream, got.r, SetBit(num, b, got.bit), b + 1, bitCount)

readBitsU64(stream, r, bitCount) == readBitsFrom(stream, r, 0, 0, bitCount)

isEndOfStream(r) == r.numBitsRead >= r.sizeInBits

(***************************************************************************)
(* Dictionary (tvgCompressor.cpp:250-309).  entries is the sequence of the *)
(* slots of the C array that have been written so far: slot i of the array *)
(* is entries[i + 1], and Len(entries) >= size.  The slots of the array    *)
(* from Len(entries) on are uninitialised.  A slot at or above size keeps  *)
(* what an earlier epoch wrote there.                                      *)
(***************************************************************************)
EntryAt(entries, i) == entries[i + 1]

IsWritten(entries, i) == i >= 0 /\ i < Len(entries)

\* the constructor with the root values one too high
NewDictionaryOffByOne ==
    [size |-> FirstCode,
     entries |-> [k \in 1..FirstCode |-> [code |-> Nil, value |-> k]]]

NewDictionary ==
    [size |-> FirstCode,
     entries |-> [k \in 1..FirstCode |-> [code |-> Nil, value |-> k - 1]]]

\* findIndex finding no entry but the roots
findIndexMiss(d, code, value) ==
    IF code = Nil THEN value ELSE Nil

\* findIndex returning the size, not Nil, when there is no such entry
findIndexNotFoundAsSize(d, code, value) ==
    IF code = Nil THEN value
    ELSE LET hits == {i \in 0..(d.size - 1) :
                        /\ EntryAt(d.entries, i).code = code
                        /\ EntryAt(d.entries, i).value = value}
         IN  IF hits = {} THEN d.size ELSE Min(hits)

findIndex(d, code, value) ==
    IF code = Nil THEN value
    ELSE LET hits == {i \in 0..(d.size - 1) :
                        /\ EntryAt(d.entries, i).code = code
                        /\ EntryAt(d.entries, i).value = value}
         IN  IF hits = {} THEN Nil ELSE Min(hits)

\* entries[at] = e, for a slot already written or the first unwritten one
StoreEntry(entries, at, e) ==
    IF IsWritten(entries, at) THEN [entries EXCEPT ![at + 1] = e]
    ELSE Append(entries, e)

\* add storing the new index as the parent
addSelfParent(d, code, value) ==
    IF d.size = MaxDictEntries THEN [ok |-> FALSE, d |-> d]
    ELSE [ok |-> TRUE,
          d |-> [size |-> d.size + 1,
                 entries |-> StoreEntry(d.entries, d.size,
                                        [code |-> d.size, value |-> value])]]

\* the result is [ok, d]
add(d, code, value) ==
    IF d.size = MaxDictEntries THEN [ok |-> FALSE, d |-> d]
    ELSE [ok |-> TRUE,
          d |-> [size |-> d.size + 1,
                 entries |-> StoreEntry(d.entries, d.size,
                                        [code |-> code, value |-> value])]]

\* flush resetting one width early
flushEarly(d, codeBitsWidth) ==
    IF d.size = 2 ^ codeBitsWidth
    THEN IF codeBitsWidth + 1 >= MaxDictBits
         THEN [reset |-> TRUE, d |-> [d EXCEPT !.size = FirstCode],
               codeBitsWidth |-> StartBits]
         ELSE [reset |-> FALSE, d |-> d, codeBitsWidth |-> codeBitsWidth + 1]
    ELSE [reset |-> FALSE, d |-> d, codeBitsWidth |-> codeBitsWidth]

\* flush leaving a full dictionary as it is
flushNoReset(d, codeBitsWidth) ==
    IF d.size = 2 ^ codeBitsWidth /\ codeBitsWidth + 1 <= MaxDictBits
    THEN [reset |-> FALSE, d |-> d, codeBitsWidth |-> codeBitsWidth + 1]
    ELSE [reset |-> FALSE, d |-> d, codeBitsWidth |-> codeBitsWidth]

\* the result is [reset, d, codeBitsWidth]
flush(d, codeBitsWidth) ==
    IF d.size = 2 ^ codeBitsWidth
    THEN IF codeBitsWidth + 1 > MaxDictBits
         THEN [reset |-> TRUE, d |-> [d EXCEPT !.size = FirstCode],
               codeBitsWidth |-> StartBits]
         ELSE [reset |-> FALSE, d |-> d, codeBitsWidth |-> codeBitsWidth + 1]
    ELSE [reset |-> FALSE, d |-> d, codeBitsWidth |-> codeBitsWidth]

(***************************************************************************)
(* outputByte, outputSequence (tvgCompressor.cpp:312-339).  The output     *)
(* buffer is the sequence of the bytes written to it so far, in o.bytes;   *)
(* o.bytesDecoded is bytesDecodedSoFar.                                    *)
(***************************************************************************)
\* outputByte without the test of the output size
outputByteUnchecked(code, o, outputSizeBytes) ==
    [ok |-> TRUE,
     o |-> [bytes |-> Append(o.bytes, code % 256),
            bytesDecoded |-> o.bytesDecoded + 1]]

\* the result is [ok, o]
outputByte(code, o, outputSizeBytes) ==
    IF o.bytesDecoded >= outputSizeBytes THEN [ok |-> FALSE, o |-> o]
    ELSE [ok |-> TRUE,
          o |-> [bytes |-> Append(o.bytes, code % 256),
                 bytesDecoded |-> o.bytesDecoded + 1]]

\* The do-while of outputSequence: sequence[0..] as stored, last byte of the
\* decoded string first; visited is the set of the slots read so far.  A
\* read of a slot that was never written yields garbage (unwritten |-> TRUE).
\* An index outside the array is undefined behaviour (undefined |-> TRUE);
\* so is a walk that comes back to a slot it has read, because it never
\* reaches a root and runs over the end of the scratch array.
RECURSIVE walkChain(_, _, _, _)
walkChain(entries, code, visited, garbage) ==
    IF code >= MaxDictEntries \/ code \in visited
    THEN [undefined |-> TRUE, unwritten |-> FALSE, sequence |-> <<>>]
    ELSE LET e == IF IsWritten(entries, code) THEN EntryAt(entries, code) ELSE garbage
         IN  IF e.code >= 0
             THEN LET rest == walkChain(entries, e.code, visited \cup {code}, garbage)
                  IN  [undefined |-> rest.undefined,
                       unwritten |-> rest.unwritten \/ ~IsWritten(entries, code),
                       sequence |-> <<e.value % 256>> \o rest.sequence]
             ELSE [undefined |-> FALSE, unwritten |-> ~IsWritten(entries, code),
                   sequence |-> <<e.value % 256>>]

\* the bytes of sequence written in the order they are stored in
RECURSIVE outputForwards(_, _, _, _)
outputForwards(sequence, i, o, outputSizeBytes) ==
    IF i < 1 THEN [ok |-> TRUE, o |-> o]
    ELSE LET w == outputByte(Head(sequence), o, outputSizeBytes)
         IN  IF ~w.ok THEN [ok |-> FALSE, o |-> o]
             ELSE outputForwards(Tail(sequence), i - 1, w.o, outputSizeBytes)

\* the for loop of outputSequence: sequence[i], sequence[i-1], ... sequence[0]
RECURSIVE outputBackwards(_, _, _, _)
outputBackwards(sequence, i, o, outputSizeBytes) ==
    IF i < 1 THEN [ok |-> TRUE, o |-> o]
    ELSE LET w == outputByte(sequence[i], o, outputSizeBytes)
         IN  IF ~w.ok THEN [ok |-> FALSE, o |-> o]
             ELSE outputBackwards(sequence, i - 1, w.o, outputSizeBytes)

\* the result is [undefined, unwritten, ok, o, firstByte]
outputSequence(dict, code, o, outputSizeBytes, firstByte, garbage) ==
    LET walk == walkChain(dict.entries, code, {}, garbage)
    IN  IF walk.undefined
        THEN [undefined |-> TRUE, unwritten |-> walk.unwritten, ok |-> FALSE,
              o |-> o, firstByte |-> firstByte]
        ELSE LET n == Len(walk.sequence)
                 res == outputBackwards(walk.sequence, n, o, outputSizeBytes)
             IN  [undefined |-> FALSE, unwritten |-> walk.unwritten,
                  ok |-> res.ok, o |-> res.o, firstByte |-> walk.sequence[n]]

(***************************************************************************)
(* State.                                                                  *)
(*   input                the caller's uncompressed buffer                 *)
(*   enc                  the locals of lzwEncode; pos is the number of    *)
(*                        input bytes consumed                             *)
(*   compressed, compressedSizeBytes, compressedSizeBits                   *)
(*                        what lzwEncode returned (or a caller's buffer)   *)
(*   dec                  the arguments and locals of lzwDecode; out is    *)
(*                        the output buffer                                *)
(*   emitted, consumed    history: <<code, width, bits, reset>> for each   *)
(*                        code written by the encoder / read by the        *)
(*                        decoder: the width in force, the bits the        *)
(*                        stream moved by, whether the iteration reset the *)
(*                        dictionary                                       *)
(*   flushes              history: the calls of Dictionary::flush that     *)
(*                        found a size that is a power of two from         *)
(*                        2 ^ StartBits on, or changed the width, or came  *)
(*                        with a refused add                               *)
(*   literals             history: the iterations of lzwDecode that began  *)
(*                        with prevCode == Nil                             *)
(*   selfrefs             history: the iterations of lzwDecode that read a *)
(*                        code not below dictionary.size with prevCode set *)
(*   rd, lastRead         a BitStreamReader used on its own, and the       *)
(*                        result of the last call on it                    *)
(*   wr, lastAppend       a BitStreamWriter used on its own, and the last  *)
(*                        call on it                                       *)
(***************************************************************************)
VARIABLES input, enc, compressed, compressedSizeBytes, compressedSizeBits,
          dec, emitted, consumed, flushes, literals, selfrefs, rd, lastRead,
          wr, lastAppend

vars == <<input, enc, compressed, compressedSizeBytes, compressedSizeBits,
          dec, emitted, consumed, flushes, literals, selfrefs, rd, lastRead,
          wr, lastAppend>>

\* the locals of lzwEncode at its first line (tvgCompressor.cpp:385-390)
EncEntry ==
    [pc |-> "loop", pos |-> 0, code |-> Nil, codeBitsWidth |-> StartBits,
     dictionary |-> NewDictionary, bitStream |-> NewWriter]

\* after the return: the dictionary is gone, release() left the writer empty
EncGone ==
    [pc |-> "returned", pos |-> 0, code |-> Nil, codeBitsWidth |-> StartBits,
     dictionary |-> NewDictionary, bitStream |-> internalInit]

EmptyOut == [bytes |-> <<>>, bytesDecoded |-> 0]

DecIdle ==
    [pc |-> "idle", uncompressedSizeBytes |-> 0,
     code |-> Nil, prevCode |-> Nil, firstByte |-> 0, out |-> EmptyOut,
     codeBitsWidth |-> StartBits, dictionary |-> NewDictionary,
     bitStream |-> NewReader(0, 0)]

\* the arguments and locals of lzwDecode before its loop (tvgCompressor.cpp:344-355)
DecEntry(sizeBytes, sizeBits, outBytes) ==
    [DecIdle EXCEPT !.pc = "loop", !.uncompressedSizeBytes = outBytes,
                    !.bitStream = NewReader(sizeBytes, sizeBits)]

NoRead == [op |-> "none", ok |-> FALSE, value |-> 0, width |-> 0, before |-> 0]

\* a call on the writer: the number and the bit count passed, the writer
\* before it, the number of calls since the construction
NoAppend ==
    [op |-> "none", num |-> 0, bitCount |-> 0, before |-> internalInit, calls |-> 0]

(***************************************************************************)
(* The history of one iteration.  Its log is a record                      *)
(*   code, width     the code written or read, the width in force          *)
(*   bits            the bits the stream moved by                          *)
(*   literal, wrote  (lzwDecode) prevCode was Nil; the bytes written       *)
(*   flushed         flush was called; then size is the size it found,     *)
(*                   widthAfter and sizeAfter the width and size it left   *)
(*   reset           flush reset the dictionary                            *)
(*   added           what became of the call of add: "yes", "refused", or  *)
(*                   "skipped" when add was not called                     *)
(***************************************************************************)
LogEntry(log) == <<log.code, log.width, log.bits, log.reset>>

\* the parts of an entry of emitted or consumed
TheCode(c) == c[1]
TheWidth(c) == c[2]
TheBits(c) == c[3]
DidReset(c) == c[4]

CeilingSizes == {2 ^ w : w \in StartBits..MaxDictBits}

Notable(log) ==
    /\ log.flushed
    /\ \/ log.size \in CeilingSizes
       \/ log.widthAfter # log.width
       \/ log.added = "refused"

\* the flush of the iteration that handled the k-th code of the stream
FlushOf(who, k, log) ==
    [who |-> who, k |-> k, width |-> log.width, size |-> log.size,
     widthAfter |-> log.widthAfter, sizeAfter |-> log.sizeAfter,
     reset |-> log.reset, added |-> log.added]

FlushesAfter(fs, who, k, log) ==
    IF Notable(log) THEN fs \cup {FlushOf(who, k, log)} ELSE fs

\* grew is the number of entries the iteration added to the dictionary
LiteralsAfter(ls, k, log, grew) ==
    IF log.literal
    THEN ls \cup {[k |-> k, code |-> log.code, width |-> log.width,
                   wrote |-> log.wrote, grew |-> grew]}
    ELSE ls

(***************************************************************************)
(* lzwEncode (tvgCompressor.cpp:382-420).                                  *)
(***************************************************************************)
\* one iteration of the for loop (392-410); the result is [enc, log], log
\* the sequence of the logs of the codes written: none or one
EncodeIteration(e, value) ==
    LET index == findIndex(e.dictionary, e.code, value)
    IN  IF index # Nil
        THEN [enc |-> [e EXCEPT !.code = index, !.pos = @ + 1], log |-> <<>>]
        ELSE LET bs == appendBitsU64(e.bitStream, e.code, e.codeBitsWidth)
                 fl == flush(e.dictionary, e.codeBitsWidth)
                 ad == add(fl.d, e.code, value)
                 d2 == IF ~fl.reset THEN ad.d ELSE fl.d
             IN  [enc |-> [e EXCEPT !.bitStream = bs, !.dictionary = d2,
                                    !.codeBitsWidth = fl.codeBitsWidth,
                                    !.code = value, !.pos = @ + 1],
                  log |-> <<[code |-> e.code, width |-> e.codeBitsWidth,
                             bits |-> bs.numBitsWritten - e.bitStream.numBitsWritten,
                             literal |-> FALSE, wrote |-> 0,
                             flushed |-> TRUE, size |-> e.dictionary.size,
                             widthAfter |-> fl.codeBitsWidth,
                             sizeAfter |-> fl.d.size,
                             reset |-> fl.reset,
                             added |-> IF fl.reset THEN "skipped"
                                       ELSE IF ad.ok THEN "yes" ELSE "refused"]>>]

\* the residual code written whatever code is
EncodeResidualAlways(e) ==
    LET bs == appendBitsU64(e.bitStream, e.code, e.codeBitsWidth)
    IN  [bitStream |-> bs,
         log |-> <<[code |-> e.code, width |-> e.codeBitsWidth,
                    bits |-> bs.numBitsWritten - e.bitStream.numBitsWritten,
                    literal |-> FALSE, wrote |-> 0,
                    flushed |-> FALSE, size |-> e.dictionary.size,
                    widthAfter |-> e.codeBitsWidth,
                    sizeAfter |-> e.dictionary.size,
                    reset |-> FALSE, added |-> "skipped"]>>]

\* the residual code (413); the result is [bitStream, log]
EncodeResidual(e) ==
    IF e.code # Nil
    THEN LET bs == appendBitsU64(e.bitStream, e.code, e.codeBitsWidth)
         IN  [bitStream |-> bs,
              log |-> <<[code |-> e.code, width |-> e.codeBitsWidth,
                         bits |-> bs.numBitsWritten - e.bitStream.numBitsWritten,
                         literal |-> FALSE, wrote |-> 0,
                         flushed |-> FALSE, size |-> e.dictionary.size,
                         widthAfter |-> e.codeBitsWidth,
                         sizeAfter |-> e.dictionary.size,
                         reset |-> FALSE, added |-> "skipped"]>>]
    ELSE [bitStream |-> e.bitStream, log |-> <<>>]

\* the histories after an iteration of lzwEncode with the log(s) logs
EncHistory(h, logs) ==
    IF logs = <<>> THEN h
    ELSE [emitted |-> Append(h.emitted, LogEntry(logs[1])),
          flushes |-> FlushesAfter(h.flushes, "enc", Len(h.emitted) + 1, logs[1])]

EncStep ==
    /\ enc.pc = "loop"
    /\ enc.pos < Len(input)
    /\ LET it == EncodeIteration(enc, input[enc.pos + 1])
           h == EncHistory([emitted |-> emitted, flushes |-> flushes], it.log)
       IN  /\ enc' = it.enc
           /\ emitted' = h.emitted
           /\ flushes' = h.flushes
    /\ UNCHANGED <<input, compressed, compressedSizeBytes, compressedSizeBits,
                   dec, consumed, literals, selfrefs, rd, lastRead, wr, lastAppend>>

\* the end of the loop, the residual code and the return (412-419)
EncFinish ==
    /\ enc.pc = "loop"
    /\ enc.pos >= Len(input)
    /\ LET fin == EncodeResidual(enc)
           h == EncHistory([emitted |-> emitted, flushes |-> flushes], fin.log)
       IN  /\ compressedSizeBytes' = getByteCount(fin.bitStream)
           /\ compressedSizeBits' = fin.bitStream.numBitsWritten
           /\ compressed' = fin.bitStream.stream
           /\ emitted' = h.emitted
           /\ flushes' = h.flushes
    /\ enc' = EncGone
    /\ UNCHANGED <<input, dec, consumed, literals, selfrefs, rd, lastRead,
                   wr, lastAppend>>

(***************************************************************************)
(* lzwDecode (tvgCompressor.cpp:342-379).                                  *)
(***************************************************************************)
\* what an uninitialised dictionary slot may hold: a root-like entry, an
\* entry with a parent, an entry whose parent is outside the array
Garbage ==
    {[code |-> Nil, value |-> 0], [code |-> 65, value |-> 255],
     [code |-> MaxDictEntries, value |-> 0]}

\* the log of an iteration that did not reach add and flush
ReadLog(d, code, bits, out) ==
    [code |-> code, width |-> d.codeBitsWidth, bits |-> bits,
     literal |-> (d.prevCode = Nil),
     wrote |-> out.bytesDecoded - d.out.bytesDecoded,
     flushed |-> FALSE, size |-> d.dictionary.size,
     widthAfter |-> d.codeBitsWidth, sizeAfter |-> d.dictionary.size,
     reset |-> FALSE, added |-> "skipped"]

\* lines 373-375 with prevCode left Nil whatever flush returned
DecodeGrowForget(d, code, out, firstByte, reader, bits, unwritten) ==
    LET ad == add(d.dictionary, d.prevCode, firstByte)
        fl == flush(ad.d, d.codeBitsWidth)
    IN  [undefined |-> FALSE, unwritten |-> unwritten,
         dec |-> [d EXCEPT !.code = code, !.out = out, !.firstByte = firstByte,
                           !.bitStream = reader, !.dictionary = fl.d,
                           !.codeBitsWidth = fl.codeBitsWidth,
                           !.prevCode = Nil],
         log |-> [ReadLog(d, code, bits, out) EXCEPT
                     !.flushed = TRUE, !.size = ad.d.size,
                     !.widthAfter = fl.codeBitsWidth, !.sizeAfter = fl.d.size,
                     !.reset = fl.reset,
                     !.added = IF ad.ok THEN "yes" ELSE "refused"]]

\* lines 373-375, after the bytes of the code were written
DecodeGrow(d, code, out, firstByte, reader, bits, unwritten) ==
    LET ad == add(d.dictionary, d.prevCode, firstByte)
        fl == flush(ad.d, d.codeBitsWidth)
    IN  [undefined |-> FALSE, unwritten |-> unwritten,
         dec |-> [d EXCEPT !.code = code, !.out = out, !.firstByte = firstByte,
                           !.bitStream = reader, !.dictionary = fl.d,
                           !.codeBitsWidth = fl.codeBitsWidth,
                           !.prevCode = IF fl.reset THEN Nil ELSE code],
         log |-> [ReadLog(d, code, bits, out) EXCEPT
                     !.flushed = TRUE, !.size = ad.d.size,
                     !.widthAfter = fl.codeBitsWidth, !.sizeAfter = fl.d.size,
                     !.reset = fl.reset,
                     !.added = IF ad.ok THEN "yes" ELSE "refused"]]

\* a break out of the loop, or undefined behaviour, after reading code
DecodeStop(d, code, out, firstByte, reader, bits, undefined, unwritten) ==
    [undefined |-> undefined, unwritten |-> unwritten,
     dec |-> [d EXCEPT !.pc = "returned", !.code = code, !.out = out,
                       !.firstByte = firstByte, !.bitStream = reader],
     log |-> ReadLog(d, code, bits, out)]

\* lines 367-371 without the byte that follows the bytes of prevCode
DecodeSelfRefNoTail(d, code, reader, bits, garbage) ==
    LET s == outputSequence(d.dictionary, d.prevCode, d.out,
                            d.uncompressedSizeBytes, d.firstByte, garbage)
    IN  IF s.undefined \/ ~s.ok
        THEN DecodeStop(d, code, s.o, s.firstByte, reader, bits,
                        s.undefined, s.unwritten)
        ELSE DecodeGrow(d, code, s.o, s.firstByte, reader, bits, s.unwritten)

\* lines 367-371: the code read is not below the size
DecodeSelfRef(d, code, reader, bits, garbage) ==
    LET cap == d.uncompressedSizeBytes
        s == outputSequence(d.dictionary, d.prevCode, d.out, cap,
                            d.firstByte, garbage)
    IN  IF s.undefined \/ ~s.ok
        THEN DecodeStop(d, code, s.o, s.firstByte, reader, bits,
                        s.undefined, s.unwritten)
        ELSE LET w == outputByte(s.firstByte, s.o, cap)
             IN  IF ~w.ok
                 THEN DecodeStop(d, code, s.o, s.firstByte, reader, bits,
                                 FALSE, s.unwritten)
                 ELSE DecodeGrow(d, code, w.o, s.firstByte, reader, bits,
                                 s.unwritten)

\* one iteration of the while loop (360-375) on the buffer buf; the result
\* is [undefined, unwritten, dec, log]
DecodeIteration(buf, d, garbage) ==
    LET got == readBitsU64(buf, d.bitStream, d.codeBitsWidth)
        code == got.num
        bits == got.r.numBitsRead - d.bitStream.numBitsRead
        cap == d.uncompressedSizeBytes
    IN  IF d.prevCode = Nil
        THEN LET w == outputByte(code, d.out, cap)
             IN  IF ~w.ok
                 THEN DecodeStop(d, code, d.out, d.firstByte, got.r, bits, FALSE, FALSE)
                 ELSE [undefined |-> FALSE, unwritten |-> FALSE,
                       dec |-> [d EXCEPT !.code = code, !.out = w.o,
                                         !.firstByte = code, !.prevCode = code,
                                         !.bitStream = got.r],
                       log |-> ReadLog(d, code, bits, w.o)]
        ELSE IF code >= d.dictionary.size
        THEN DecodeSelfRef(d, code, got.r, bits, garbage)
        ELSE LET s == outputSequence(d.dictionary, code, d.out, cap,
                                     d.firstByte, garbage)
             IN  IF s.undefined \/ ~s.ok
                 THEN DecodeStop(d, code, s.o, s.firstByte, got.r, bits,
                                 s.undefined, s.unwritten)
                 ELSE DecodeGrow(d, code, s.o, s.firstByte, got.r, bits,
                                 s.unwritten)

SomeGarbage == CHOOSE g \in Garbage : TRUE

\* the garbage values that make a difference to this iteration
GarbageRead(buf, d) ==
    IF DecodeIteration(buf, d, SomeGarbage).unwritten THEN Garbage ELSE {SomeGarbage}

\* what undefined behaviour may do to the call: abort it, or never return
UndefinedOutcomes == {"crashed", "hung"}

\* the sequence s, last element first
RECURSIVE Reversed(_)
Reversed(s) == IF s = <<>> THEN <<>> ELSE Append(Reversed(Tail(s)), Head(s))

\* the bytes the entry numbered code stands for, first byte first; none when
\* the walk from it is undefined
StringOf(entries, code) ==
    Reversed(walkChain(entries, code, {}, SomeGarbage).sequence)

\* An iteration that began at d with prevCode set and read a code not below
\* the size: the size, the bytes prevCode stood for, the number of bytes
\* written before the iteration and the bytes it wrote.
SelfRefsAfter(ss, k, d, it) ==
    IF d.prevCode # Nil /\ it.log.code >= d.dictionary.size
    THEN ss \cup {[k |-> k, code |-> it.log.code, size |-> d.dictionary.size,
                   prevString |-> StringOf(d.dictionary.entries, d.prevCode),
                   at |-> d.out.bytesDecoded,
                   wrote |-> SubSeq(it.dec.out.bytes, d.out.bytesDecoded + 1,
                                    it.dec.out.bytesDecoded)]}
    ELSE ss

\* the histories after the iteration it of lzwDecode, which began at d
DecHistory(h, d, it) ==
    [consumed |-> Append(h.consumed, LogEntry(it.log)),
     flushes |-> FlushesAfter(h.flushes, "dec", Len(h.consumed) + 1, it.log),
     literals |-> LiteralsAfter(h.literals, Len(h.consumed) + 1, it.log,
                                it.dec.dictionary.size - d.dictionary.size),
     selfrefs |-> SelfRefsAfter(h.selfrefs, Len(h.consumed) + 1, d, it)]

DecStep ==
    /\ dec.pc = "loop"
    /\ ~isEndOfStream(dec.bitStream)
    /\ \E garbage \in GarbageRead(compressed, dec) :
         LET it == DecodeIteration(compressed, dec, garbage)
             h == DecHistory([consumed |-> consumed, flushes |-> flushes,
                              literals |-> literals, selfrefs |-> selfrefs],
                             dec, it)
         IN  /\ consumed' = h.consumed
             /\ flushes' = h.flushes
             /\ literals' = h.literals
             /\ selfrefs' = h.selfrefs
             /\ IF it.undefined
                THEN \E outcome \in UndefinedOutcomes :
                        dec' = [it.dec EXCEPT !.pc = outcome]
                ELSE dec' = it.dec
    /\ UNCHANGED <<input, enc, compressed, compressedSizeBytes, compressedSizeBits,
                   emitted, rd, lastRead, wr, lastAppend>>

\* the loop ends at the end of the stream; return uncompressed (359, 378)
DecReturn ==
    /\ dec.pc = "loop"
    /\ isEndOfStream(dec.bitStream)
    /\ dec' = [dec EXCEPT !.pc = "returned"]
    /\ UNCHANGED <<input, enc, compressed, compressedSizeBytes, compressedSizeBits,
                   emitted, consumed, flushes, literals, selfrefs, rd, lastRead,
                   wr, lastAppend>>

(***************************************************************************)
(* The inputs.  Short inputs are followed from the first line of           *)
(* lzwEncode.  The long inputs fill the dictionary: they are followed from *)
(* the state lzwEncode is in after WarmBytes iterations, and from the      *)
(* state lzwDecode is in after WarmCodes iterations on what lzwEncode      *)
(* returned for them; both states are computed by iterating                *)
(* EncodeIteration and DecodeIteration, halving the count so that the      *)
(* evaluation stays shallow.                                               *)
(***************************************************************************)
Alphabet == {0, 65, 255}

RECURSIVE SeqsOfLen(_)
SeqsOfLen(n) ==
    IF n = 0 THEN {<<>>}
    ELSE {Append(s, b) : s \in SeqsOfLen(n - 1), b \in Alphabet}

ShortInputs == UNION {SeqsOfLen(n) : n \in 0..MaxLen}

\* the long input: a run of one byte, a body in which few pairs of
\* neighbours repeat, a run of another byte
LongByte(i) ==
    IF i <= HeadRun THEN 65
    ELSE IF i > LongLen - TailRun THEN 66
    ELSE (7 * i * i + 3 * i + (i \div 64)) % 97

LongInput == [i \in 1..LongLen |-> LongByte(i)]

\* its prefix of FullLen bytes
FullInput == SubSeq(LongInput, 1, FullLen)

LongInputs == {LongInput, FullInput}

\* the one element of a set of one element
TheOne(set) == CHOOSE x \in set : TRUE

\* one more iteration of the loop of lzwEncode on S, from
\* st = [enc, emitted, flushes]
EncodeLogged(st, it) ==
    TheOne({[enc |-> it.enc, emitted |-> h.emitted, flushes |-> h.flushes] :
              h \in {EncHistory([emitted |-> st.emitted, flushes |-> st.flushes],
                                it.log)}})

EncodeOne(st, S) ==
    TheOne({EncodeLogged(st, it) :
              it \in {EncodeIteration(st.enc, S[st.enc.pos + 1])}})

\* n more iterations of it.  The state half way is bound by a set
\* constructor, so that it is a value, computed once.
RECURSIVE EncodeRun(_, _, _)
EncodeRun(st, S, n) ==
    IF n <= 0 \/ st.enc.pos >= Len(S) THEN st
    ELSE IF n = 1 THEN EncodeOne(st, S)
    ELSE TheOne({EncodeRun(mid, S, n - (n \div 2)) :
                    mid \in {EncodeRun(st, S, n \div 2)}})

\* one more iteration of the loop of lzwDecode on buf, from
\* st = [dec, consumed, flushes, literals, selfrefs]; on a buffer lzwEncode
\* returned no
\* iteration is undefined
DecodeLogged(st, it) ==
    TheOne({[dec |-> IF it.undefined THEN [it.dec EXCEPT !.pc = "crashed"]
                     ELSE it.dec,
             consumed |-> h.consumed, flushes |-> h.flushes,
             literals |-> h.literals, selfrefs |-> h.selfrefs] :
              h \in {DecHistory([consumed |-> st.consumed, flushes |-> st.flushes,
                                 literals |-> st.literals,
                                 selfrefs |-> st.selfrefs], st.dec, it)}})

DecodeOne(buf, st) ==
    TheOne({DecodeLogged(st, it) :
              it \in {DecodeIteration(buf, st.dec, SomeGarbage)}})

\* n more iterations of it
RECURSIVE DecodeRun(_, _, _)
DecodeRun(buf, st, n) ==
    IF n <= 0 \/ st.dec.pc # "loop" \/ isEndOfStream(st.dec.bitStream) THEN st
    ELSE IF n = 1 THEN DecodeOne(buf, st)
    ELSE TheOne({DecodeRun(buf, mid, n - (n \div 2)) :
                    mid \in {DecodeRun(buf, st, n \div 2)}})

\* lzwEncode after WarmBytes iterations: the first WarmBytes bytes are those
\* of LongInput for both long inputs
LongEncWarm ==
    EncodeRun([enc |-> EncEntry, emitted |-> <<>>, flushes |-> {}],
              LongInput, WarmBytes)

\* what lzwEncode returns for the long input S
EncodedFrom(st, S) ==
    LET end == EncodeRun(st, S, Len(S))
        fin == EncodeResidual(end.enc)
        h == EncHistory([emitted |-> end.emitted, flushes |-> end.flushes],
                        fin.log)
    IN  [input |-> S,
         compressed |-> fin.bitStream.stream,
         compressedSizeBytes |-> getByteCount(fin.bitStream),
         compressedSizeBits |-> fin.bitStream.numBitsWritten,
         emitted |-> h.emitted, flushes |-> h.flushes]

LongEncoded == EncodedFrom(LongEncWarm, LongInput)

FullEncoded == EncodedFrom(LongEncWarm, FullInput)

\* lzwDecode after WarmCodes iterations on what lzwEncode returned, with an
\* output buffer of outBytes bytes
DecWarm(encoded, outBytes) ==
    [encoded |-> encoded,
     st |-> DecodeRun(encoded.compressed,
                      [dec |-> DecEntry(encoded.compressedSizeBytes,
                                        encoded.compressedSizeBits, outBytes),
                       consumed |-> <<>>, flushes |-> encoded.flushes,
                       literals |-> {}, selfrefs |-> {}],
                      WarmCodes)]

\* the long input into a buffer of its size and into one a byte short, the
\* prefix into a buffer of its size
LongDecWarm ==
    {DecWarm(LongEncoded, LongLen), DecWarm(LongEncoded, LongLen - 1),
     DecWarm(FullEncoded, FullLen)}

InitShort ==
    /\ input \in ShortInputs
    /\ enc = EncEntry
    /\ compressed = <<>>
    /\ compressedSizeBytes = 0
    /\ compressedSizeBits = 0
    /\ dec = DecIdle
    /\ emitted = <<>>
    /\ consumed = <<>>
    /\ flushes = {}
    /\ literals = {}
    /\ selfrefs = {}

InitLongEnc ==
    /\ input \in LongInputs
    /\ enc = LongEncWarm.enc
    /\ compressed = <<>>
    /\ compressedSizeBytes = 0
    /\ compressedSizeBits = 0
    /\ dec = DecIdle
    /\ emitted = LongEncWarm.emitted
    /\ consumed = <<>>
    /\ flushes = LongEncWarm.flushes
    /\ literals = {}
    /\ selfrefs = {}

InitLongDec ==
    \E warm \in LongDecWarm :
        /\ input = warm.encoded.input
        /\ enc = EncGone
        /\ compressed = warm.encoded.compressed
        /\ compressedSizeBytes = warm.encoded.compressedSizeBytes
        /\ compressedSizeBits = warm.encoded.compressedSizeBits
        /\ dec = warm.st.dec
        /\ emitted = warm.encoded.emitted
        /\ consumed = warm.st.consumed
        /\ flushes = warm.st.flushes
        /\ literals = warm.st.literals
        /\ selfrefs = warm.st.selfrefs

Init ==
    /\ InitShort \/ InitLongEnc \/ InitLongDec
    /\ rd = NewReader(0, 0)
    /\ lastRead = NoRead
    /\ wr = internalInit
    /\ lastAppend = NoAppend

\* the argument pairs <<compressedSizeBits, uncompressedSizeBytes>> a caller
\* passes with the buffer lzwEncode returned: the sizes it was given, a
\* smaller bit count, a smaller output size
DecodeArgs ==
    ({compressedSizeBits} \X (0..Len(input)))
        \cup ((0..compressedSizeBits) \X {Len(input)})

\* the call of lzwDecode on the buffer lzwEncode returned
DecStart ==
    /\ enc.pc = "returned"
    /\ dec.pc = "idle"
    /\ Len(input) <= MaxLen
    /\ \E args \in DecodeArgs :
         dec' = DecEntry(compressedSizeBytes, args[1], args[2])
    /\ UNCHANGED <<input, enc, compressed, compressedSizeBytes, compressedSizeBits,
                   emitted, consumed, flushes, literals, selfrefs, rd, lastRead,
                   wr, lastAppend>>

Next == EncStep \/ EncFinish \/ DecStart \/ DecStep \/ DecReturn

Spec == Init /\ [][Next]_vars

(***************************************************************************)
(* A BitStreamReader on its own: any sequence of readNextBit and           *)
(* readBitsU64 calls on a buffer with a declared bit count.                *)
(***************************************************************************)
ReaderBytes == {165, 255}

\* the widths readBitsU64 is called with
ReadWidths == {0, 1, 3, 8, StartBits, MaxReadWidth}

RECURSIVE BuffersOfLen(_)
BuffersOfLen(n) ==
    IF n = 0 THEN {<<>>}
    ELSE {Append(s, b) : s \in BuffersOfLen(n - 1), b \in ReaderBytes}

ReaderBuffers == UNION {BuffersOfLen(n) : n \in 0..MaxReaderBytes}

InitReader ==
    /\ compressed \in ReaderBuffers
    /\ \E bitCount \in 0..(8 * MaxReaderBytes) :
         /\ bitCount <= 8 * Len(compressed)
         /\ rd = NewReader(Len(compressed), bitCount)
    /\ lastRead = NoRead
    /\ wr = internalInit
    /\ lastAppend = NoAppend
    /\ input = <<>>
    /\ enc = EncGone
    /\ compressedSizeBytes = 0
    /\ compressedSizeBits = 0
    /\ dec = DecIdle
    /\ emitted = <<>>
    /\ consumed = <<>>
    /\ flushes = {}
    /\ literals = {}
    /\ selfrefs = {}

ReadNextBit ==
    /\ LET got == readNextBit(compressed, rd)
       IN  /\ rd' = got.r
           /\ lastRead' = [op |-> "readNextBit", ok |-> got.ok, value |-> got.bit,
                           width |-> 1, before |-> rd.numBitsRead]
    /\ UNCHANGED <<input, enc, compressed, compressedSizeBytes, compressedSizeBits,
                   dec, emitted, consumed, flushes, literals, selfrefs,
                   wr, lastAppend>>

ReadBitsU64 ==
    /\ \E bitCount \in ReadWidths :
         LET got == readBitsU64(compressed, rd, bitCount)
         IN  /\ rd' = got.r
             /\ lastRead' = [op |-> "readBitsU64", ok |-> TRUE, value |-> got.num,
                             width |-> bitCount, before |-> rd.numBitsRead]
    /\ UNCHANGED <<input, enc, compressed, compressedSizeBytes, compressedSizeBits,
                   dec, emitted, consumed, flushes, literals, selfrefs,
                   wr, lastAppend>>

NextReader == ReadNextBit \/ ReadBitsU64

SpecReader == InitReader /\ [][NextReader]_vars

(***************************************************************************)
(* lzwDecode on a buffer that lzwEncode did not produce: up to             *)
(* MaxForeignCodes codes of StartBits bits each.                           *)
(***************************************************************************)
ForeignCodes == {65, 256, 257, 300}

RECURSIVE CodeSeqsOfLen(_)
CodeSeqsOfLen(n) ==
    IF n = 0 THEN {<<>>}
    ELSE {Append(s, c) : s \in CodeSeqsOfLen(n - 1), c \in ForeignCodes}

\* the writer after the codes of s were appended to it
RECURSIVE PackCodes(_, _)
PackCodes(w, s) ==
    IF s = <<>> THEN w
    ELSE PackCodes(appendBitsU64(w, Head(s), StartBits), Tail(s))

ForeignStreams ==
    {PackCodes(NewWriterSized(8 * (2 * MaxForeignCodes + 1), DefaultGranularity), s) :
        s \in UNION {CodeSeqsOfLen(n) : n \in 0..MaxForeignCodes}}

InitForeign ==
    /\ \E w \in ForeignStreams :
         /\ compressed = w.stream
         /\ compressedSizeBytes = getByteCount(w)
         /\ compressedSizeBits = w.numBitsWritten
    /\ input = <<>>
    /\ enc = [EncGone EXCEPT !.pc = "none"]
    /\ dec = DecIdle
    /\ emitted = <<>>
    /\ consumed = <<>>
    /\ flushes = {}
    /\ literals = {}
    /\ selfrefs = {}
    /\ rd = NewReader(0, 0)
    /\ lastRead = NoRead
    /\ wr = internalInit
    /\ lastAppend = NoAppend

\* the call of lzwDecode on the caller's buffer
DecStartForeign ==
    /\ enc.pc = "none"
    /\ dec.pc = "idle"
    /\ dec' = DecEntry(compressedSizeBytes, compressedSizeBits, ForeignOutBytes)
    /\ UNCHANGED <<input, enc, compressed, compressedSizeBytes, compressedSizeBits,
                   emitted, consumed, flushes, literals, selfrefs, rd, lastRead,
                   wr, lastAppend>>

NextForeign == DecStartForeign \/ DecStep \/ DecReturn

SpecForeign == InitForeign /\ [][NextForeign]_vars

\* DecStep is enabled exactly when the loop is at a code to read
DecStepEnabled == dec.pc = "loop" /\ ~isEndOfStream(dec.bitStream)

\* A call that has been made runs: no step of it waits for anything.  The
\* last conjunct is the weak fairness of DecStep, its enabling condition
\* written out.
SpecForeignFair ==
    /\ SpecForeign
    /\ WF_vars(DecStartForeign)
    /\ WF_vars(DecReturn)
    /\ ([]<>(~DecStepEnabled) \/ []<><<DecStep>>_vars)

(***************************************************************************)
(* BitStreamWriter on its own (tvgCompressor.cpp:91-198): a writer made by *)
(* one of the two constructors, then calls of appendBit and appendBitsU64. *)
(* lastAppend is the last call: the constructor's allocate(num), or an     *)
(* append.  A default-constructed writer is also followed from the state   *)
(* it is in WriterSlack bits before its 1024 bytes are full.  The writer   *)
(* lzwEncode constructs is followed with it.                               *)
(***************************************************************************)
WriterSizes == {-8, 0, 1, 3, 4, 5, 8, 9, 16}
WriterGranularities == {0, 2, 3}
AppendNums == {341, 6827}
AppendWidths == {0, 1, StartBits, MaxDictBits}

\* the i-th bit written to the writer that is followed from near its capacity
PatternBit(i) == IF (i * i + (i \div 3)) % 3 = 0 THEN 1 ELSE 0

\* n calls of appendBit, the bits from, from + 1, ... of the pattern
RECURSIVE AppendRun(_, _, _)
AppendRun(w, from, n) ==
    IF n <= 0 THEN w
    ELSE IF n = 1 THEN appendBit(w, PatternBit(from))
    ELSE TheOne({AppendRun(mid, from + (n \div 2), n - (n \div 2)) :
                    mid \in {AppendRun(w, from, n \div 2)}})

Constructed(bitsWanted) ==
    [op |-> "allocate", num |-> bitsWanted, bitCount |-> 0,
     before |-> internalInit, calls |-> 0]

WarmWriterBits == DefaultSizeInBits - WriterSlack

WarmWriter ==
    TheOne({[w |-> appendBit(b, PatternBit(WarmWriterBits - 1)),
             call |-> [op |-> "appendBit", num |-> PatternBit(WarmWriterBits - 1),
                       bitCount |-> 1, before |-> b, calls |-> 0]] :
               b \in {AppendRun(w0, 0, WarmWriterBits - 1) : w0 \in {NewWriter}}})

WritersMade ==
    {[w |-> NewWriter, call |-> Constructed(DefaultSizeInBits)], WarmWriter}
        \cup {[w |-> NewWriterSized(b, g), call |-> Constructed(b)] :
                 b \in WriterSizes, g \in WriterGranularities}

InitWriter ==
    \/ /\ \E made \in WritersMade : wr = made.w /\ lastAppend = made.call
       /\ rd = NewReader(0, 0)
       /\ lastRead = NoRead
       /\ input = <<>>
       /\ enc = EncGone
       /\ compressed = <<>>
       /\ compressedSizeBytes = 0
       /\ compressedSizeBits = 0
       /\ dec = DecIdle
       /\ emitted = <<>>
       /\ consumed = <<>>
       /\ flushes = {}
       /\ literals = {}
       /\ selfrefs = {}
    \/ /\ InitShort \/ InitLongEnc
       /\ rd = NewReader(0, 0)
       /\ lastRead = NoRead
       /\ wr = internalInit
       /\ lastAppend = NoAppend

\* the writer exists and no call on it has gone wrong
WriterLive ==
    /\ lastAppend.op \notin ({"none"} \cup UndefinedOutcomes)
    /\ lastAppend.calls < MaxAppends

AppendBit ==
    /\ WriterLive
    /\ \E bit \in {0, 1} :
         LET call == [op |-> "appendBit", num |-> bit, bitCount |-> 1,
                      before |-> wr, calls |-> lastAppend.calls + 1]
         IN  IF appendUndefined(wr, 1)
             THEN /\ wr' = wr
                  /\ \E outcome \in UndefinedOutcomes :
                        lastAppend' = [call EXCEPT !.op = outcome]
             ELSE /\ wr' = appendBit(wr, bit)
                  /\ lastAppend' = call
    /\ UNCHANGED <<input, enc, compressed, compressedSizeBytes, compressedSizeBits,
                   dec, emitted, consumed, flushes, literals, selfrefs, rd, lastRead>>

AppendBitsU64 ==
    /\ WriterLive
    /\ \E num \in AppendNums, bitCount \in AppendWidths :
         LET call == [op |-> "appendBitsU64", num |-> num, bitCount |-> bitCount,
                      before |-> wr, calls |-> lastAppend.calls + 1]
         IN  IF appendUndefined(wr, bitCount)
             THEN /\ wr' = wr
                  /\ \E outcome \in UndefinedOutcomes :
                        lastAppend' = [call EXCEPT !.op = outcome]
             ELSE /\ wr' = appendBitsU64(wr, num, bitCount)
                  /\ lastAppend' = call
    /\ UNCHANGED <<input, enc, compressed, compressedSizeBytes, compressedSizeBits,
                   dec, emitted, consumed, flushes, literals, selfrefs, rd, lastRead>>

NextWriter == AppendBit \/ AppendBitsU64 \/ EncStep \/ EncFinish

SpecWriter == InitWriter /\ [][NextWriter]_vars

(***************************************************************************)
(* Properties.                                                             *)
(***************************************************************************)
\* lzwDecode was called with the sizes lzwEncode returned and an output
\* buffer of the size of the input
ExactArgs ==
    /\ dec.pc # "idle"
    /\ dec.bitStream.sizeInBits = compressedSizeBits
    /\ dec.uncompressedSizeBytes = Len(input)

\* lzwDecode was called with the bit count lzwEncode returned
ExactBits ==
    /\ dec.pc # "idle"
    /\ dec.bitStream.sizeInBits = compressedSizeBits

IsPrefix(s, t) == Len(s) <= Len(t) /\ s = SubSeq(t, 1, Len(s))

\* some code read so far was followed by an epoch reset
DecoderCrossedEpoch == \E f \in flushes : f.who = "dec" /\ f.reset

\* C1 -- round trip: when lzwDecode returns, having been given the buffer,
\* byte count and bit count lzwEncode returned for the input and the length
\* of the input as uncompressedSizeBytes, it has written exactly that many
\* bytes and they are the input.
C1_RoundTrip ==
    (ExactArgs /\ dec.pc = "returned")
        => /\ dec.out.bytesDecoded = Len(input)
           /\ dec.out.bytes = input

\* a round trip of the long input, across an epoch reset, has completed
C1_Witness ==
    /\ ExactArgs
    /\ dec.pc = "returned"
    /\ Len(input) = LongLen
    /\ DecoderCrossedEpoch
    /\ dec.out.bytes = input

\* the k-th code read is the k-th code written: same value, same width, the
\* same number of bits
SameCode(k) ==
    /\ k <= Len(emitted)
    /\ TheCode(consumed[k]) = TheCode(emitted[k])
    /\ TheWidth(consumed[k]) = TheWidth(emitted[k])
    /\ TheBits(consumed[k]) = TheBits(emitted[k])

\* the decoder is at the end of the stream exactly when it has read every
\* code written, and when it returns it has read them all
EndAfterLastCode ==
    /\ isEndOfStream(dec.bitStream) <=> (Len(consumed) = Len(emitted))
    /\ dec.pc = "returned" => Len(consumed) = Len(emitted)

\* C2 -- lockstep, as the code has it: on the buffer and sizes lzwEncode
\* returned, the k-th code lzwDecode reads has the value and the width of the
\* k-th code lzwEncode wrote and is read whole; the decoder is at the end of
\* the stream exactly after the last code written; for every code but the
\* last the decoder resets its dictionary after the code exactly when the
\* encoder did.  After the last code the decoder still calls add and flush,
\* which the encoder does not do for its residual code: the decoder resets
\* there when the add made the size MaxDictEntries, and the encoder did not.
C2_Lockstep ==
    ExactArgs =>
        /\ \A k \in 1..Len(consumed) :
             /\ SameCode(k)
             /\ TheBits(consumed[k]) = TheWidth(consumed[k])
             /\ k < Len(emitted) => (DidReset(consumed[k]) <=> DidReset(emitted[k]))
             /\ k = Len(emitted) =>
                  /\ ~DidReset(emitted[k])
                  /\ DidReset(consumed[k]) <=>
                        \E f \in flushes : /\ f.who = "dec" /\ f.k = k
                                           /\ f.size = MaxDictEntries
        /\ EndAfterLastCode

\* the long input was decoded to its end, the decoder having reset its
\* dictionary after a code after which the encoder reset its own
C2_Witness ==
    /\ ExactArgs
    /\ dec.pc = "returned"
    /\ Len(consumed) = Len(emitted)
    /\ \E k \in 1..(Len(consumed) - 1) :
         DidReset(consumed[k]) /\ DidReset(emitted[k])

\* C2, as the claim states it: for every k the decoder resets after the k-th
\* code exactly when the encoder did.
C2_Original ==
    ExactArgs =>
        /\ \A k \in 1..Len(consumed) :
             /\ SameCode(k)
             /\ DidReset(consumed[k]) <=> DidReset(emitted[k])
        /\ EndAfterLastCode

\* C3 -- output-capacity truncation: on the buffer and bit count lzwEncode
\* returned, with any uncompressedSizeBytes up to the length of the input,
\* at every step the bytes written are a prefix of the input and no more
\* than uncompressedSizeBytes; when lzwDecode returns it has written exactly
\* uncompressedSizeBytes bytes.
C3_Truncation ==
    ExactBits =>
        /\ dec.out.bytesDecoded <= dec.uncompressedSizeBytes
        /\ Len(dec.out.bytes) = dec.out.bytesDecoded
        /\ IsPrefix(dec.out.bytes, input)
        /\ dec.pc = "returned" => dec.out.bytesDecoded = dec.uncompressedSizeBytes

\* lzwDecode has returned from a call with an output buffer shorter than the
\* long input, having filled it
C3_Witness ==
    /\ ExactBits
    /\ dec.pc = "returned"
    /\ Len(input) = LongLen
    /\ dec.uncompressedSizeBytes < Len(input)
    /\ dec.out.bytesDecoded = dec.uncompressedSizeBytes

\* C4 -- input truncation, as the claim states it: lzwDecode, given the
\* buffer lzwEncode returned for a non-empty input, the length of the input
\* as uncompressedSizeBytes and a smaller bit count than lzwEncode returned,
\* returns having written fewer bytes than the input has.
C4_InputTruncation ==
    ( /\ dec.pc = "returned"
      /\ Len(input) > 0
      /\ dec.uncompressedSizeBytes = Len(input)
      /\ dec.bitStream.sizeInBits < compressedSizeBits )
        => dec.out.bytesDecoded < Len(input)

\* C5 -- termination, as the claim states it: every call of lzwDecode, on
\* any buffer, returns.
C5_Terminates == (dec.pc = "loop") ~> (dec.pc = "returned")

\* bit n of the stream in buf
StreamBit(buf, n) == BitOf(buf[(n \div 8) + 1], n % 8)

\* the number whose bits 0 .. count-1 are the bits from .. from+count-1 of buf
RECURSIVE BitsValue(_, _, _)
BitsValue(buf, from, count) ==
    IF count = 0 THEN 0
    ELSE StreamBit(buf, from) + 2 * BitsValue(buf, from + 1, count - 1)

\* the bits left in the stream before the last call
LeftBefore == rd.sizeInBits - lastRead.before

\* C6 -- the reader never reads past the declared bit count: numBitsRead is
\* at most sizeInBits and is the position of the reader; readNextBit at
\* numBitsRead == sizeInBits returns false and leaves the position, otherwise
\* it returns the next bit; readBitsU64(width) returns the number formed from
\* the next width bits, or from the bits that were left when fewer were, the
\* higher bits zero, and advances by as many bits.
C6_ReaderBounds ==
    /\ rd.numBitsRead <= rd.sizeInBits
    /\ 8 * rd.currBytePos + rd.nextBitPos = rd.numBitsRead
    /\ lastRead.op = "readNextBit" =>
          IF LeftBefore = 0
          THEN ~lastRead.ok /\ rd.numBitsRead = lastRead.before
          ELSE /\ lastRead.ok
               /\ lastRead.value = StreamBit(compressed, lastRead.before)
               /\ rd.numBitsRead = lastRead.before + 1
    /\ lastRead.op = "readBitsU64" =>
          LET got == IF lastRead.width < LeftBefore THEN lastRead.width ELSE LeftBefore
          IN  /\ lastRead.value = BitsValue(compressed, lastRead.before, got)
              /\ lastRead.value < 2 ^ got
              /\ rd.numBitsRead = lastRead.before + got

\* readBitsU64 was asked for more bits than were left, some were, the buffer
\* has bytes beyond the declared bit count, and the number returned is not 0
C6_Witness ==
    /\ lastRead.op = "readBitsU64"
    /\ LeftBefore > 0
    /\ lastRead.width > LeftBefore
    /\ rd.sizeInBits + 8 <= 8 * Len(compressed)
    /\ lastRead.value > 0
    /\ rd.numBitsRead = rd.sizeInBits

\* the width at the first line of lzwEncode and of lzwDecode, and its range
WidthInRange ==
    /\ enc.codeBitsWidth \in StartBits..MaxDictBits
    /\ dec.codeBitsWidth \in StartBits..MaxDictBits
    /\ emitted = <<>> => enc.codeBitsWidth = StartBits
    /\ consumed = <<>> => dec.codeBitsWidth = StartBits
    /\ \A k \in 1..Len(emitted) : TheWidth(emitted[k]) \in StartBits..MaxDictBits
    /\ \A k \in 1..Len(consumed) : TheWidth(consumed[k]) \in StartBits..MaxDictBits

\* what flush did, by the size it found
FlushSchedule ==
    \A f \in flushes :
        IF f.size \in CeilingSizes
        THEN /\ f.size = 2 ^ f.width
             /\ IF f.width < MaxDictBits
                THEN /\ f.widthAfter = f.width + 1
                     /\ f.sizeAfter = f.size
                     /\ ~f.reset
                ELSE /\ f.widthAfter = StartBits
                     /\ f.sizeAfter = FirstCode
                     /\ f.reset
        ELSE /\ f.widthAfter = f.width
             /\ f.sizeAfter = f.size
             /\ ~f.reset

\* a step of a call that changes the width is a step in which flush did
WidthChangesInFlush ==
    /\ (enc.pc = "loop" /\ enc'.pc = "loop"
            /\ enc'.codeBitsWidth # enc.codeBitsWidth)
          => \E f \in flushes' \ flushes :
                /\ f.who = "enc"
                /\ f.width = enc.codeBitsWidth
                /\ f.widthAfter = enc'.codeBitsWidth
    /\ (dec.pc = "loop" /\ dec'.pc = "loop"
            /\ dec'.codeBitsWidth # dec.codeBitsWidth)
          => \E f \in flushes' \ flushes :
                /\ f.who = "dec"
                /\ f.width = dec.codeBitsWidth
                /\ f.widthAfter = dec'.codeBitsWidth

\* C7 -- code-width schedule: in lzwEncode and lzwDecode the width starts at
\* StartBits and stays in StartBits..MaxDictBits; it changes only in a step
\* in which flush changed it; flush adds one to it when it finds the size
\* 512, 1024 or 2048, sets it to StartBits and the size to FirstCode when it
\* finds the size 4096 at width MaxDictBits, and leaves both otherwise.
C7_WidthSchedule ==
    /\ [](WidthInRange /\ FlushSchedule)
    /\ [][WidthChangesInFlush]_vars

\* flush has found each of the sizes 512, 1024, 2048 and 4096, in lzwEncode
\* and in lzwDecode
C7_Witness ==
    \A who \in {"enc", "dec"} : \A size \in CeilingSizes :
        \E f \in flushes : f.who = who /\ f.size = size

\* the k-th code of the stream is the first of an epoch
FirstOfEpoch(k) ==
    \/ k = 1
    \/ /\ k - 1 <= Len(emitted)
       /\ DidReset(emitted[k - 1])
       /\ DidReset(consumed[k - 1])

\* C8 -- epoch reset: on the buffer and bit count lzwEncode returned, the
\* iterations of lzwDecode that begin with prevCode == Nil are the one that
\* reads the first code and those that read the code after a reset of both
\* the decoder and the encoder; the code read is the one the encoder wrote
\* there, at width StartBits, and is a root code; one byte is written for it
\* unless the output buffer is full, and the dictionary does not grow.
C8_EpochReset ==
    ExactBits =>
        /\ \A l \in literals :
             /\ FirstOfEpoch(l.k)
             /\ l.code \in 0..(FirstCode - 1)
             /\ l.width = StartBits
             /\ l.k <= Len(emitted)
             /\ TheCode(emitted[l.k]) = l.code
             /\ TheWidth(emitted[l.k]) = StartBits
             /\ l.grew = 0
             /\ \/ l.wrote = 1
                \/ /\ l.wrote = 0
                   /\ dec.pc = "returned"
                   /\ dec.out.bytesDecoded = dec.uncompressedSizeBytes
        /\ \A k \in 1..Len(consumed) :
             (k = 1 \/ DidReset(consumed[k - 1])) => \E l \in literals : l.k = k
        /\ (dec.pc = "loop" /\ dec.prevCode = Nil) =>
              (consumed = <<>> \/ DidReset(consumed[Len(consumed)]))

\* lzwDecode has read, with prevCode == Nil, the code after a reset
C8_Witness ==
    /\ ExactArgs
    /\ \E l \in literals : l.k > 1 /\ l.wrote = 1 /\ TheCode(emitted[l.k]) = l.code

\* C9 -- dictionary exhaustion, as the code has it: add is never called with
\* size == MaxDictEntries and never refuses; a full dictionary is handled by
\* flush, which resets it on finding the size MaxDictEntries; the add of that
\* iteration is skipped in lzwEncode and has succeeded, filling the last
\* slot, in lzwDecode; the call goes on and no error is surfaced.
C9_Exhaustion ==
    /\ enc.dictionary.size <= MaxDictEntries
    /\ dec.dictionary.size <= MaxDictEntries
    /\ dec.pc \notin UndefinedOutcomes
    /\ \A f \in flushes :
         /\ f.added # "refused"
         /\ f.reset =>
              /\ f.size = MaxDictEntries
              /\ f.added = IF f.who = "enc" THEN "skipped" ELSE "yes"

\* lzwEncode and lzwDecode have each reset a full dictionary
C9_Witness ==
    /\ \E f \in flushes : f.who = "enc" /\ f.reset /\ f.size = MaxDictEntries
    /\ \E f \in flushes : f.who = "dec" /\ f.reset /\ f.size = MaxDictEntries
    /\ dec.pc = "returned"

\* C9, as the claim states it: the epoch reset comes with add refusing to add.
C9_Original == \A f \in flushes : f.reset => f.added = "refused"

\* C10 -- empty input: lzwEncode on an input of length 0 writes no code and
\* returns 0 for compressedSizeBytes and for compressedSizeBits; lzwDecode on
\* what it returned, with uncompressedSizeBytes == 0, reads no code and
\* writes no byte.
C10_EmptyInput ==
    Len(input) = 0 =>
        /\ emitted = <<>>
        /\ enc.pc = "returned" =>
              /\ compressedSizeBytes = 0
              /\ compressedSizeBits = 0
        /\ dec.pc # "idle" =>
              /\ dec.bitStream.sizeInBytes = 0
              /\ dec.bitStream.sizeInBits = 0
              /\ dec.uncompressedSizeBytes = 0
              /\ consumed = <<>>
              /\ dec.out.bytesDecoded = 0
              /\ dec.out.bytes = <<>>

\* lzwDecode has returned from the call on what lzwEncode returned for the
\* empty input
C10_Witness ==
    /\ Len(input) = 0
    /\ enc.pc = "returned"
    /\ dec.pc = "returned"
    /\ dec.out.bytesDecoded = 0

\* the sum of the widths of the codes lo .. hi of the history s
RECURSIVE SumWidths(_, _, _)
SumWidths(s, lo, hi) ==
    IF lo > hi THEN 0
    ELSE IF lo = hi THEN TheWidth(s[lo])
    ELSE SumWidths(s, lo, (lo + hi) \div 2) + SumWidths(s, ((lo + hi) \div 2) + 1, hi)

EmittedBits == SumWidths(emitted, 1, Len(emitted))

\* C11 -- bit accounting: the bits lzwEncode has written are the sum, over
\* the codes written, of the width each was written with; the
\* compressedSizeBits it returns is that sum and compressedSizeBytes is the
\* least number of bytes that hold so many bits.
C11_BitAccounting ==
    /\ enc.pc = "loop" => enc.bitStream.numBitsWritten = EmittedBits
    /\ enc.pc = "returned" =>
          /\ compressedSizeBits = EmittedBits
          /\ 8 * compressedSizeBytes >= compressedSizeBits
          /\ 8 * compressedSizeBytes < compressedSizeBits + 8

\* lzwEncode has returned for a long input, with codes of every width, a
\* number of bits that is no multiple of 8
C11_Witness ==
    /\ enc.pc = "returned"
    /\ Len(input) >= FullLen
    /\ compressedSizeBits % 8 # 0
    /\ compressedSizeBits = EmittedBits
    /\ \A w \in StartBits..MaxDictBits :
          \E k \in 1..Len(emitted) : TheWidth(emitted[k]) = w

\* the bytes an iteration that read a code not below the size has to write
SelfRefBytes(s) ==
    IF s.prevString = <<>> THEN <<>>
    ELSE Append(s.prevString, Head(s.prevString))

\* C12 -- the KwKwK case: on the buffer and bit count lzwEncode returned,
\* a code read with prevCode set is at most dictionary.size; when it is the
\* size, the bytes written are those prevCode stands for followed by the
\* first of them (all of them, or as many as the output buffer had room
\* for), and they are the bytes of the input at that place, the string the
\* encoder wrote the code for.
C12_KwKwK ==
    ExactBits =>
        \A s \in selfrefs :
            /\ s.code = s.size
            /\ s.prevString # <<>>
            /\ \/ s.wrote = SelfRefBytes(s)
               \/ /\ IsPrefix(s.wrote, SelfRefBytes(s))
                  /\ s.at + Len(s.wrote) = dec.uncompressedSizeBytes
            /\ s.wrote = SubSeq(input, s.at + 1, s.at + Len(s.wrote))

\* lzwDecode has read, after a reset, the code that was its dictionary.size,
\* and before it one whose prevCode stood for more than one byte
C12_Witness ==
    /\ ExactArgs
    /\ DecoderCrossedEpoch
    /\ \E s \in selfrefs : Len(s.prevString) >= 2 /\ s.wrote = SelfRefBytes(s)
    /\ \E s \in selfrefs : /\ s.size = FirstCode + 1
                           /\ s.at > FullLen
                           /\ s.wrote = SelfRefBytes(s)

\* every entry of d from FirstCode on has its parent below it
ParentsBelow(d) ==
    \A k \in FirstCode..(d.size - 1) :
        /\ EntryAt(d.entries, k).code >= 0
        /\ EntryAt(d.entries, k).code < k

\* the walk of outputSequence from any code above the roots and below the
\* size ends at a root within size - 255 steps (from a root it is one step)
WalksEnd(d) ==
    \A c \in FirstCode..(d.size - 1) :
        LET walk == walkChain(d.entries, c, {}, SomeGarbage)
        IN  /\ ~walk.undefined
            /\ ~walk.unwritten
            /\ Len(walk.sequence) <= d.size - (FirstCode - 1)

\* C13 -- parent chains: in lzwEncode, and in lzwDecode on the buffer and bit
\* count lzwEncode returned, every entry at an index k from 256 to size - 1
\* has a parent p with 0 <= p < k, and the walk of outputSequence from any
\* code below size reaches a root in at most size - 255 steps.
C13_ParentChains ==
    /\ ParentsBelow(enc.dictionary)
    /\ WalksEnd(enc.dictionary)
    /\ ExactBits => (ParentsBelow(dec.dictionary) /\ WalksEnd(dec.dictionary))

\* the decoder's dictionary has one slot left and holds an entry whose parent
\* is itself an entry with a parent
C13_Witness ==
    /\ ExactBits
    /\ dec.pc = "loop"
    /\ dec.dictionary.size = MaxDictEntries - 1
    /\ \E k \in FirstCode..(dec.dictionary.size - 1) :
          EntryAt(dec.dictionary.entries, k).code >= FirstCode

\* the size is within the array and the roots are as constructed
BoundsAndRoots(d) ==
    /\ d.size >= FirstCode
    /\ d.size <= MaxDictEntries
    /\ Len(d.entries) >= d.size
    /\ \A i \in 0..(FirstCode - 1) :
          EntryAt(d.entries, i) = [code |-> Nil, value |-> i]

\* an iteration leaves the size, or adds one entry, or resets it to FirstCode
SizeStep(before, after) ==
    \/ after.size = before.size
    \/ after.size = before.size + 1
    \/ after.size = FirstCode

SizeChanges ==
    /\ (enc.pc = "loop" /\ enc'.pc = "loop") =>
           SizeStep(enc.dictionary, enc'.dictionary)
    /\ (dec.pc = "loop" /\ dec'.pc # "idle") =>
           SizeStep(dec.dictionary, dec'.dictionary)

\* a flush that reset the dictionary left the size FirstCode, and no other
\* flush changed the size
ResetsToFirstCode ==
    \A f \in flushes :
        IF f.reset THEN f.sizeAfter = FirstCode ELSE f.sizeAfter = f.size

\* C14 -- dictionary bounds and roots: in every state of lzwEncode and
\* lzwDecode 256 <= size <= 4096 and the entries 0 .. 255 are (Nil, index);
\* the size changes only by one (add) or by the reset to 256 (flush).
C14_BoundsAndRoots ==
    /\ [](BoundsAndRoots(enc.dictionary) /\ BoundsAndRoots(dec.dictionary)
          /\ ResetsToFirstCode)
    /\ [][SizeChanges]_vars

\* the decoder has filled the array and reset the size: the slots above the
\* roots keep the old epoch's entries, and the roots are as constructed
C14_Witness ==
    /\ dec.pc = "loop"
    /\ DecoderCrossedEpoch
    /\ dec.dictionary.size > FirstCode
    /\ Len(dec.dictionary.entries) = MaxDictEntries
    /\ BoundsAndRoots(dec.dictionary)

\* the (parent, value) pairs of the entries below the size
LiveKeys(d) ==
    {<<EntryAt(d.entries, i).code, EntryAt(d.entries, i).value>> :
        i \in 0..(d.size - 1)}

\* C15 -- unique keys: in lzwEncode, and in lzwDecode on the buffer and bit
\* count lzwEncode returned, no two entries below the size have the same
\* parent and value.
C15_UniqueKeys ==
    /\ Cardinality(LiveKeys(enc.dictionary)) = enc.dictionary.size
    /\ ExactBits => Cardinality(LiveKeys(dec.dictionary)) = dec.dictionary.size

\* the encoder's dictionary is full, every key in it different
C15_Witness ==
    /\ enc.pc = "loop"
    /\ enc.dictionary.size = MaxDictEntries
    /\ Cardinality(LiveKeys(enc.dictionary)) = MaxDictEntries

\* C16 -- emitted code range: the code lzwEncode holds, which is what it
\* passes to appendBitsU64, is Nil only before the first byte and otherwise
\* 0 <= code < dictionary.size <= 2 ^ codeBitsWidth; no code written was Nil
\* or had a bit beyond the width it was written with.
C16_CodeRange ==
    /\ enc.pc = "loop" =>
          /\ enc.code = Nil <=> enc.pos = 0
          /\ enc.code # Nil => (enc.code >= 0 /\ enc.code < enc.dictionary.size)
          /\ enc.dictionary.size <= 2 ^ enc.codeBitsWidth
    /\ \A k \in 1..Len(emitted) :
          /\ TheCode(emitted[k]) >= 0
          /\ TheCode(emitted[k]) < 2 ^ TheWidth(emitted[k])
          /\ TheBits(emitted[k]) = TheWidth(emitted[k])

\* lzwEncode holds a code above the roots at the widest width, and has
\* written such a code with StartBits bits and with MaxDictBits bits
C16_Witness ==
    /\ enc.pc = "loop"
    /\ enc.code >= FirstCode
    /\ \E k \in 1..Len(emitted) :
          TheCode(emitted[k]) >= FirstCode /\ TheWidth(emitted[k]) = StartBits
    /\ \E k \in 1..Len(emitted) :
          TheCode(emitted[k]) >= FirstCode /\ TheWidth(emitted[k]) = MaxDictBits

\* the positions of w are inside its storage
InsideStorage(w) ==
    /\ w.currBytePos >= 0
    /\ w.currBytePos < w.bytesAllocated
    /\ w.nextBitPos >= 0
    /\ w.nextBitPos <= 7
    /\ w.numBitsWritten = 8 * w.currBytePos + w.nextBitPos
    /\ Len(w.stream) = w.bytesAllocated
    /\ w.granularity >= 2

\* the capacity after bits bits: multiplied by the granularity each time the
\* last byte of the capacity has been filled; no capacity stays none
RECURSIVE GrownFrom(_, _, _)
GrownFrom(capacity, granularity, bits) ==
    IF capacity >= 1 /\ bits >= 8 * capacity
    THEN GrownFrom(capacity * granularity, granularity, bits)
    ELSE capacity

\* the bits written to before have in after the value they had in before
KeepsBits(before, after) ==
    /\ \A i \in 1..before.currBytePos : after.stream[i] = before.stream[i]
    /\ before.nextBitPos > 0 =>
          after.stream[before.currBytePos + 1] % (2 ^ before.nextBitPos)
             = before.stream[before.currBytePos + 1] % (2 ^ before.nextBitPos)

\* a call, or calls, that led from before to after
GrowthStep(before, after) ==
    /\ after.granularity = before.granularity
    /\ after.bytesAllocated =
          GrownFrom(before.bytesAllocated, before.granularity, after.numBitsWritten)
    /\ KeepsBits(before, after)

\* the last call was an append that wrote to the writer
Appended == lastAppend.op \in {"appendBit", "appendBitsU64"}

\* C17 -- the writer stays inside its storage: a writer constructed with at
\* least a byte (the default-constructed one has 1024) has, after any calls
\* of appendBit and appendBitsU64, currBytePos < bytesAllocated and
\* 0 <= nextBitPos <= 7; a call changes the capacity only by filling the
\* last allocated byte, then to the capacity times the granularity (>= 2),
\* and the bits written before the call keep their value.  The same holds
\* of the writer lzwEncode constructs.
C17_InsideStorage ==
    /\ wr.bytesAllocated >= 1 => InsideStorage(wr)
    /\ Appended =>
          /\ lastAppend.before.numBitsWritten + lastAppend.bitCount = wr.numBitsWritten
          /\ GrowthStep(lastAppend.before, wr)
    /\ enc.pc = "loop" =>
          /\ InsideStorage(enc.bitStream)
          /\ GrowthStep(NewWriter, enc.bitStream)

\* a call of appendBitsU64 has filled the last of the 1024 bytes of a
\* default-constructed writer, which has 2048 now, ahead of a byte half
\* written
C17_Witness ==
    /\ lastAppend.op = "appendBitsU64"
    /\ lastAppend.before.bytesAllocated = DefaultSizeInBits \div 8
    /\ wr.bytesAllocated = DefaultGranularity * (DefaultSizeInBits \div 8)
    /\ lastAppend.before.nextBitPos > 0
    /\ wr.numBitsWritten > DefaultSizeInBits
    /\ InsideStorage(wr)

\* every bit of the storage of w from numBitsWritten on is 0
ZeroBeyond(stream, numBitsWritten) ==
    /\ \A i \in ((numBitsWritten \div 8) + 2)..Len(stream) : stream[i] = 0
    /\ (numBitsWritten \div 8) < Len(stream) =>
          stream[(numBitsWritten \div 8) + 1] < 2 ^ (numBitsWritten % 8)

\* the bits of the last call are in the stream, the least significant bit
\* of a byte first
LsbFirst ==
    Appended =>
        BitsValue(wr.stream, lastAppend.before.numBitsWritten, lastAppend.bitCount)
            = lastAppend.num % (2 ^ lastAppend.bitCount)

\* the first and the last code lzwEncode wrote are in the buffer it
\* returned, the least significant bit of a byte first
CodesLsbFirst ==
    (enc.pc = "returned" /\ Len(emitted) > 0) =>
        /\ BitsValue(compressed, 0, TheWidth(emitted[1])) = TheCode(emitted[1])
        /\ BitsValue(compressed,
                     compressedSizeBits - TheWidth(emitted[Len(emitted)]),
                     TheWidth(emitted[Len(emitted)]))
              = TheCode(emitted[Len(emitted)])

\* C18 -- zero padding: after any calls of appendBit and appendBitsU64 every
\* bit of the writer's storage at a position from numBitsWritten on is 0; so
\* are the bits from compressedSizeBits on of the buffer lzwEncode returns;
\* the bits are stored the least significant bit of a byte first.
C18_ZeroPadding ==
    /\ ZeroBeyond(wr.stream, wr.numBitsWritten)
    /\ LsbFirst
    /\ enc.pc = "loop" => ZeroBeyond(enc.bitStream.stream, enc.bitStream.numBitsWritten)
    /\ enc.pc = "returned" => ZeroBeyond(compressed, compressedSizeBits)
    /\ CodesLsbFirst

\* a writer has grown and its last byte in use is half written, the call
\* having passed a number with bits beyond its bit count
C18_Witness ==
    /\ lastAppend.op = "appendBitsU64"
    /\ lastAppend.num >= 2 ^ lastAppend.bitCount
    /\ lastAppend.bitCount > 0
    /\ wr.bytesAllocated > lastAppend.before.bytesAllocated
    /\ wr.nextBitPos > 0
    /\ wr.stream[wr.currBytePos + 1] > 0
    /\ ZeroBeyond(wr.stream, wr.numBitsWritten)

\* C19 -- allocate requires at least a byte: after allocate(bitsWanted) on a
\* fresh writer, whatever bitsWanted is, bytesAllocated >= 1 and
\* bytesAllocated * 8 >= bitsWanted, and the first appendBit has storage to
\* write to.
C19_AtLeastAByte ==
    /\ lastAppend.op = "allocate" =>
          /\ wr.bytesAllocated >= 1
          /\ wr.bytesAllocated * 8 >= lastAppend.num
    /\ lastAppend.op \notin UndefinedOutcomes

=============================================================================
